---------------------------- MODULE Spec2Model ----------------------------
(***************************************************************************)
(* A model of the Gameday Recruiting Matchmaker (src/app.py): the match    *)
(* score, the filter/score/sort pipeline of a submission, and the admin    *)
(* operations on the data file.                                            *)
(*                                                                         *)
(* Text is modelled as a tuple of one-character strings, so that strip(),  *)
(* lower() and split("|") are computed and not assumed.                    *)
(*                                                                         *)
(* Numbers: a GPA or a GPA floor is an integer count of 1/10000 grade      *)
(* points (3.0 is 30000).  The running `score` of compute_match_score is   *)
(* an integer count of 10^-7 (the weight 0.35 is 3500000), and a match     *)
(* score is an integer count of 1/100 point (90.0 is 9000).                *)
(***************************************************************************)
EXTENDS Integers, Sequences, FiniteSets, TLC

VARIABLES
    \* --- a call of compute_match_score (specification SpecScore)
    player,       \* the player dict passed to compute_match_score
    row,          \* the program record passed to compute_match_score
    match_score,  \* the value returned, NotYet before the call
    \* --- one POST / on a data file at rest (specification SpecRank)
    form,         \* the submitted form, fields already stripped (index)
    data,         \* content of DATA_PATH: a sequence of CSV rows
    dns,          \* the mail domains the resolver of validate_email finds
    out,          \* what index computed, NoOut before the request
    \* --- the server under concurrent requests (specification Spec)
    main,         \* TRUE: started as `python app.py` (mac_desktop_app/run.py)
    file,         \* content of DATA_PATH: a sequence of cells (rows, holes)
    cleanup,      \* content of needs_location_cleanup.csv
    session,      \* session["admin"] of every client
    req,          \* the request each client has in flight
    resp,         \* the last response each client received
    hist          \* history kept for the properties, never read by a handler

scoreVars  == <<player, row, match_score>>
rankVars   == <<form, data, dns, out>>
serverVars == <<main, file, cleanup, session, req, resp, hist>>
vars       == <<player, row, match_score, form, data, dns, out,
                main, file, cleanup, session, req, resp, hist>>

-----------------------------------------------------------------------------
(* Text helpers                                                            *)

Min(a, b) == IF a <= b THEN a ELSE b
Max(a, b) == IF a >= b THEN a ELSE b

\* str.lower() on one character
LowerChar(c) ==
    CASE c = "A" -> "a" [] c = "B" -> "b" [] c = "C" -> "c" [] c = "D" -> "d"
      [] c = "E" -> "e" [] c = "F" -> "f" [] c = "G" -> "g" [] c = "H" -> "h"
      [] c = "I" -> "i" [] c = "J" -> "j" [] c = "K" -> "k" [] c = "L" -> "l"
      [] c = "M" -> "m" [] c = "N" -> "n" [] c = "O" -> "o" [] c = "P" -> "p"
      [] c = "Q" -> "q" [] c = "R" -> "r" [] c = "S" -> "s" [] c = "T" -> "t"
      [] c = "U" -> "u" [] c = "V" -> "v" [] c = "W" -> "w" [] c = "X" -> "x"
      [] c = "Y" -> "y" [] c = "Z" -> "z" [] OTHER -> c

\* str.lower()
Lower(s) == [i \in 1..Len(s) |-> LowerChar(s[i])]

RECURSIVE LStrip(_)
LStrip(s) == IF s # <<>> /\ Head(s) = " " THEN LStrip(Tail(s)) ELSE s

RECURSIVE RStrip(_)
RStrip(s) ==
    IF s # <<>> /\ s[Len(s)] = " " THEN RStrip(SubSeq(s, 1, Len(s) - 1)) ELSE s

\* str.strip()
Strip(s) == RStrip(LStrip(s))

\* str.split(sep): the pieces between the separators, empty pieces kept
RECURSIVE SplitFrom(_, _, _)
SplitFrom(s, sep, cur) ==
    IF s = <<>> THEN <<cur>>
    ELSE IF Head(s) = sep THEN <<cur>> \o SplitFrom(Tail(s), sep, <<>>)
    ELSE SplitFrom(Tail(s), sep, Append(cur, Head(s)))

Split(s, sep) == SplitFrom(s, sep, <<>>)

\* `x in s` for a character and a string
HasChar(s, c) == \E i \in 1..Len(s) : s[i] = c

_norm(s) == Lower(Strip(s))

-----------------------------------------------------------------------------
(* Numbers                                                                 *)

\* A text that float() is applied to: k says what kind of text it is, v is
\* the number it spells (in 1/10000) when k = "num".
GpaText(k, v) == [k |-> k, v |-> v]

\* A Python float: finite (v in 1/10000), nan, +inf or -inf.
Fin(v) == [k |-> "fin", v |-> v]
NaN    == [k |-> "nan", v |-> 0]
PInf   == [k |-> "pinf", v |-> 0]
NInf   == [k |-> "ninf", v |-> 0]

\* A min_gpa of a program record: None or a number.
None == [k |-> "none", v |-> 0]
Num(v) == [k |-> "num", v |-> v]

\* float(player.get('gpa') or 0), ValueError caught: gpa = 0.0
PlayerGpa(t) ==
    CASE t.k = "empty" -> Fin(0)     \* '' is falsy: float(0)
      [] t.k = "junk"  -> Fin(0)     \* ValueError
      [] t.k = "nan"   -> NaN        \* float("nan")
      [] t.k = "inf"   -> PInf       \* float("inf")
      [] t.k = "-inf"  -> NInf       \* float("-inf")
      [] OTHER         -> Fin(t.v)

\* gpa >= min_gpa_num for a float gpa and a finite min_gpa_num
FloatGE(g, m) ==
    CASE g.k = "fin"  -> g.v >= m
      [] g.k = "pinf" -> TRUE
      [] OTHER        -> FALSE       \* nan and -inf compare below

\* GpaDiff without the cap min(., 1.0)
GpaDiff_uncapped(g, m) ==
    IF g.k = "pinf" THEN 10000 ELSE Max(0, g.v - m)

\* max(0.0, min(gpa - min_gpa_num, 1.0)), for gpa >= min_gpa_num
GpaDiff(g, m) ==
    IF g.k = "pinf" THEN 10000 ELSE Max(0, Min(g.v - m, 10000))

\* round(score * 100, 2): score counts 10^-7, the result counts 1/100 point.
\* The GPA texts of the model never put score * 100 half way between two
\* hundredths (there the binary value of the float decides).
Round2(score) == (score + 500) \div 1000

-----------------------------------------------------------------------------
(* compute_match_score                                                     *)

\* the weights with academics and major exchanged
weights_swapped == [division |-> 35, region |-> 25, academics |-> 15, major |-> 25]

\* the weights, in hundredths
weights == [division |-> 35, region |-> 25, academics |-> 25, major |-> 15]

\* a term of the sum: w hundredths times a factor f counting 10^-5
Term(w, f) == w * f

\* the majors list of a record: split on "|", stripped, lower-cased, the
\* empty pieces dropped
MajorsOf(r) ==
    LET parts == Split(r.majors, "|")
    IN  { Lower(Strip(parts[i])) : i \in { j \in 1..Len(parts) : Strip(parts[j]) # <<>> } }

\* GpaMeets without the comparison: the academic term is always added
GpaMeets_always(gpa, min_gpa_num) == TRUE

\* gpa >= min_gpa_num
GpaMeets(gpa, min_gpa_num) == FloatGE(gpa, min_gpa_num)

\* the academic term added when the GPA meets the floor
AcademicTerm(gpa, min_gpa_num) ==
    Term(weights.academics, 60000 + 4 * GpaDiff(gpa, min_gpa_num))

compute_match_score(p, r) ==
    LET s0 == 0
        s1 == IF p.division # <<>> /\ _norm(r.division) = _norm(p.division)
              THEN s0 + Term(weights.division, 100000) ELSE s0
        s2 == IF p.region # <<>> /\ _norm(r.region) = _norm(p.region)
              THEN s1 + Term(weights.region, 100000) ELSE s1
        gpa == PlayerGpa(p.gpa)
        min_gpa_num == IF r.min_gpa.k = "num" THEN r.min_gpa.v ELSE 0
        s3 == IF GpaMeets(gpa, min_gpa_num)
              THEN s2 + AcademicTerm(gpa, min_gpa_num) ELSE s2
        intended_major == Lower(Strip(p.major))
        s4 == IF intended_major # <<>> /\ intended_major \in MajorsOf(r)
              THEN s3 + Term(weights.major, 100000) ELSE s3
    IN  Round2(s4)


-----------------------------------------------------------------------------
(* load_colleges                                                           *)
(*                                                                         *)
(* A CSV row of the model names its columns school_name, division, region, *)
(* city, state, coach_name, coach_email, min_gpa and majors, the first     *)
(* alias _first_match tries for each field; school_name is never blank and *)
(* no cell holds a comma or a parenthesis, so _derive_school_name is not   *)
(* entered and _parse_location and _guess_city_state_from_row find nothing.*)
(* The min_gpa cell is [k, v]: blank, words without a digit, or a text     *)
(* whose first decimal number is v (the regular expression of              *)
(* _parse_min_gpa takes no sign, so v >= 0).                               *)

\* _first_match on a column the row has: the stripped cell
_first_match(raw, column) == Strip(raw[column])

div_map ==
    { <<<<"n", "c", "a", "a", " ", "d", "1">>, <<"D", "1">>>>,
      <<<<"n", "c", "a", "a", " ", "d", "i", "v", "i", "s", "i", "o", "n", " ", "i">>,
        <<"D", "1">>>>,
      <<<<"d", "i", "v", "i", "s", "i", "o", "n", " ", "i">>, <<"D", "1">>>>,
      <<<<"d", "1">>, <<"D", "1">>>>,
      <<<<"d", "i", "v", " ", "i">>, <<"D", "1">>>>,
      <<<<"n", "c", "a", "a", " ", "d", "2">>, <<"D", "2">>>>,
      <<<<"n", "c", "a", "a", " ", "d", "i", "v", "i", "s", "i", "o", "n", " ", "i", "i">>,
        <<"D", "2">>>>,
      <<<<"d", "i", "v", "i", "s", "i", "o", "n", " ", "i", "i">>, <<"D", "2">>>>,
      <<<<"d", "2">>, <<"D", "2">>>>,
      <<<<"d", "i", "v", " ", "i", "i">>, <<"D", "2">>>>,
      <<<<"n", "c", "a", "a", " ", "d", "3">>, <<"D", "3">>>>,
      <<<<"n", "c", "a", "a", " ", "d", "i", "v", "i", "s", "i", "o", "n", " ", "i", "i", "i">>,
        <<"D", "3">>>>,
      <<<<"d", "i", "v", "i", "s", "i", "o", "n", " ", "i", "i", "i">>, <<"D", "3">>>>,
      <<<<"d", "3">>, <<"D", "3">>>>,
      <<<<"d", "i", "v", " ", "i", "i", "i">>, <<"D", "3">>>>,
      <<<<"n", "a", "i", "a">>, <<"N", "A", "I", "A">>>>,
      <<<<"j", "u", "c", "o">>, <<"J", "U", "C", "O">>>>,
      <<<<"n", "j", "c", "a", "a">>, <<"J", "U", "C", "O">>>> }

\* div_map.get(_norm(division), (division or "").strip())
NormalizeDivision(division) ==
    IF \E e \in div_map : e[1] = _norm(division)
    THEN (CHOOSE e \in div_map : e[1] = _norm(division))[2]
    ELSE Strip(division)

_parse_min_gpa(cell) ==
    IF cell.k # "num" THEN None
    ELSE IF 0 <= cell.v /\ cell.v <= 50000 THEN Num(cell.v) ELSE None

\* the record load_colleges appends for one CSV row
LoadRow(raw) ==
    [ school_name |-> _first_match(raw, "school_name"),
      division    |-> NormalizeDivision(_first_match(raw, "division")),
      region      |-> _first_match(raw, "region"),
      city        |-> _first_match(raw, "city"),
      state       |-> _first_match(raw, "state"),
      coach_name  |-> _first_match(raw, "coach_name"),
      coach_email |-> _first_match(raw, "coach_email"),
      min_gpa     |-> _parse_min_gpa(raw.min_gpa),
      majors      |-> _first_match(raw, "majors") ]

load_colleges(content) == [i \in 1..Len(content) |-> LoadRow(content[i])]

-----------------------------------------------------------------------------
(* validate_email (the email_validator package): the syntax of the address,*)
(* then the deliverability of its domain; either failure raises            *)
(* EmailNotValidError.                                                     *)

AtSigns(s) == { i \in 1..Len(s) : s[i] = "@" }

EmailSyntaxOk(s) ==
    /\ Cardinality(AtSigns(s)) = 1
    /\ ~HasChar(s, " ")
    /\ LET at == CHOOSE i \in AtSigns(s) : TRUE
           domain == SubSeq(s, at + 1, Len(s))
       IN  /\ at > 1
           /\ s[1] # "." /\ s[at - 1] # "."
           /\ Len(domain) >= 3
           /\ HasChar(domain, ".")
           /\ domain[1] # "." /\ domain[Len(domain)] # "."

EmailDomain(s) == SubSeq(s, (CHOOSE i \in AtSigns(s) : TRUE) + 1, Len(s))

\* TRUE when validate_email(email) returns, FALSE when it raises
validate_email(email, resolvable) ==
    EmailSyntaxOk(email) /\ Lower(EmailDomain(email)) \in resolvable

-----------------------------------------------------------------------------
(* index, POST                                                             *)

\* r['mailto'] is None or the mailto: link; the link is kept as its address
\* and the school its subject names
NoLink == <<>>
Link(email, r) == <<[to |-> email, school |-> r.school_name]>>

\* MailtoFor without the except branch: the link is always built
MailtoFor_always(valid, email, r) == Link(email, r)

\* the branch taken after validate_email(email): else, or except
MailtoFor(valid, email, r) == IF valid THEN Link(email, r) ELSE NoLink

\* the body of the loop `for r in rows`
Scored(p, r, resolvable) ==
    LET email == Strip(r.coach_email)
    IN  [ match_score |-> compute_match_score(p, r),
          mailto |-> MailtoFor(validate_email(email, resolvable), email, r) ] @@ r

\* rows.sort(key=match_score, reverse=True): a stable merge sort, the higher
\* score first and equal scores in the order they had.  Merging two sorted
\* runs a, b puts a[i] after the elements of b that go before it and b[j]
\* after the elements of a that go before it.
\* Merge with ties taken from the right run first
Merge_unstable(a, b) ==
    LET pa == [i \in 1..Len(a) |->
                 i + Cardinality({ j \in 1..Len(b) :
                                     b[j].match_score >= a[i].match_score })]
        pb == [j \in 1..Len(b) |->
                 j + Cardinality({ i \in 1..Len(a) :
                                     a[i].match_score > b[j].match_score })]
    IN  [k \in 1..(Len(a) + Len(b)) |->
            IF \E i \in 1..Len(a) : pa[i] = k
            THEN a[CHOOSE i \in 1..Len(a) : pa[i] = k]
            ELSE b[CHOOSE j \in 1..Len(b) : pb[j] = k]]

\* an element of the right run goes before one of the left run only with a
\* strictly higher score
Merge(a, b) ==
    LET pa == [i \in 1..Len(a) |->
                 i + Cardinality({ j \in 1..Len(b) :
                                     b[j].match_score > a[i].match_score })]
        pb == [j \in 1..Len(b) |->
                 j + Cardinality({ i \in 1..Len(a) :
                                     a[i].match_score >= b[j].match_score })]
    IN  [k \in 1..(Len(a) + Len(b)) |->
            IF \E i \in 1..Len(a) : pa[i] = k
            THEN a[CHOOSE i \in 1..Len(a) : pa[i] = k]
            ELSE b[CHOOSE j \in 1..Len(b) : pb[j] = k]]

RECURSIVE SortDesc(_)
SortDesc(s) ==
    IF Len(s) <= 1 THEN s
    ELSE LET h == Len(s) \div 2
         IN  Merge(SortDesc(SubSeq(s, 1, h)), SortDesc(SubSeq(s, h + 1, Len(s))))

\* rows[:200]
ResultLimit == 200
Shown(rows) == SubSeq(rows, 1, Min(ResultLimit, Len(rows)))

\* KeepFilter without the test: a filter is kept even when nothing matched
KeepFilter_always(f) == TRUE

\* `if f_div:` and `if f_reg:`: a filter is kept when it matched something
KeepFilter(f) == f # <<>>

\* the test of the division filter
DivisionMatches(r, p) == _norm(r.division) = _norm(p.division)

\* RegionMatches without _norm: the texts compared as they are
RegionMatches_exact(r, p) == r.region = p.region

\* the test of the region filter
RegionMatches(r, p) == _norm(r.region) = _norm(p.region)

\* the player dict index builds from the form
PlayerOf(f) ==
    [ division |-> Strip(f.division), region |-> Strip(f.region),
      gpa |-> f.gpa, major |-> Strip(f.major) ]

\* what POST / computes from the rows load_colleges returned
Rank(p, all_rows, resolvable) ==
    LET f_div == SelectSeq(all_rows, LAMBDA r : DivisionMatches(r, p))
        kept_div == p.division # <<>> /\ KeepFilter(f_div)
        rows1 == IF kept_div THEN f_div ELSE all_rows
        f_reg == SelectSeq(rows1, LAMBDA r : RegionMatches(r, p))
        kept_reg == p.region # <<>> /\ KeepFilter(f_reg)
        rows2 == IF kept_reg THEN f_reg ELSE rows1
        reverted == rows2 = <<>>
        rows3 == IF reverted THEN all_rows ELSE rows2
        scored == [i \in 1..Len(rows3) |-> Scored(p, rows3[i], resolvable)]
    IN  [ done |-> TRUE, player |-> p, all_rows |-> all_rows,
          kept_div |-> kept_div, kept_reg |-> kept_reg, reverted |-> reverted,
          rows |-> rows3, results |-> Shown(SortDesc(scored)) ]

index_post(f, content, resolvable) ==
    Rank(PlayerOf(f), load_colleges(content), resolvable)

-----------------------------------------------------------------------------
(* Texts of the model                                                      *)

Empty == <<>>
sD1 == <<"D", "1">>
sD2 == <<"D", "2">>
sD3 == <<"D", "3">>
sWest == <<"W", "e", "s", "t">>
sSouth == <<"S", "o", "u", "t", "h">>
sBio == <<"b", "i", "o">>
sArt == <<"a", "r", "t">>

-----------------------------------------------------------------------------
(* SpecScore: compute_match_score called on one player and one record      *)

\* GPA numbers run from 2.5 in steps of 0.5
MaxGpaStep == 4
\* GPA floors run from 2.5 in steps of 0.5; [0, 5] is all _parse_min_gpa keeps
MaxFloorStep == 3

GpaNumbers ==
    { -10000, 0, 50001 } \cup
    { 25000 + 5000 * k + d : k \in 0..MaxGpaStep, d \in { -1, 0, 1, 4567 } }

GpaTexts ==
    { GpaText(k, 0) : k \in { "empty", "junk", "nan", "inf", "-inf" } } \cup
    { GpaText("num", v) : v \in GpaNumbers }

Floors ==
    { None, Num(0), Num(50000) } \cup
    { Num(Min(25000 + 5000 * k, 50000)) : k \in 0..MaxFloorStep }

ScorePlayers ==
    [ division : { Empty, <<" ">>, <<" ", "d", "1", " ">> },
      region   : { Empty, <<" ", "W", "E", "S", "T">> },
      gpa      : GpaTexts,
      major    : { Empty, <<" ">>, <<" ", "B", "i", "o", " ">>,
                   <<"b", "i", "o", "|", "a", "r", "t">> } ]

ScoreRows ==
    [ division : { sD1, sD2, Empty },
      region   : { sWest, sSouth },
      min_gpa  : Floors,
      majors   : { Empty, <<"B", "i", "o", " ", "|", " ", "A", "r", "t">>,
                   <<"a", "r", "t", "|", "|">> } ]

NotYet == [done |-> FALSE, v |-> 0]
Returned(v) == [done |-> TRUE, v |-> v]

NoPlayer == [division |-> Empty, region |-> Empty, gpa |-> GpaText("empty", 0),
             major |-> Empty]
NoRow == [division |-> Empty, region |-> Empty, min_gpa |-> None, majors |-> Empty]

ScoreIdle == player = NoPlayer /\ row = NoRow /\ match_score = NotYet

\* the call: match_score = compute_match_score(player, row)
ScoreCall ==
    /\ ~match_score.done
    /\ match_score' = Returned(compute_match_score(player, row))
    /\ UNCHANGED <<player, row, rankVars, serverVars>>


-----------------------------------------------------------------------------
(* Data files and forms of the model                                       *)

sU(n) == <<"U">> \o n
sCoach == <<"C", "o", "a", "c", "h">>
sAB == <<"a", "@", "b", ".", "c", "o">>
sCD == <<"c", "@", "D", ".", "o", "r", "g">>
Blank == [k |-> "blank", v |-> 0]
Words == [k |-> "words", v |-> 0]
Cell(v) == [k |-> "num", v |-> v]

CsvRow(name, division, region, city, state, email, min_gpa, majors) ==
    [ school_name |-> name, division |-> division, region |-> region,
      city |-> city, state |-> state, coach_name |-> sCoach,
      coach_email |-> email, min_gpa |-> min_gpa, majors |-> majors ]

\* the CSV rows the small data files are made of
Row1 == CsvRow(sU(<<"1">>), <<" ", "d", "1">>, sWest, <<"L", "A">>, <<"C", "A">>,
               sAB, Cell(30000), <<"B", "i", "o", " ", "|", " ", "A", "r", "t">>)
Row2 == CsvRow(sU(<<"2">>), <<"N", "C", "A", "A", " ", "D", "2">>,
               <<"w", "e", "s", "t", " ">>, Empty, <<"C", "A">>,
               <<"a", "b", ".", "c", "o">>, Blank, Empty)
Row3 == CsvRow(sU(<<"3">>), sD1, sSouth, <<"L", "A">>, Empty,
               Empty, Cell(25000), sArt)
Row4 == CsvRow(sU(<<"4">>), <<"N", "J", "C", "A", "A">>, sSouth, Empty, Empty,
               sCD, Words, sBio)
Row5 == CsvRow(sU(<<"5">>), sD2, Empty, <<"L", "A">>, <<"C", "A">>,
               <<" ", "a", "@", "b", ".", "c", "o">>, Cell(60000),
               <<"b", "i", "o", "|">>)
RowPool == { Row1, Row2, Row3, Row4, Row5 }

\* a small data file holds at most MaxRows rows, all different
MaxRows == 2

RECURSIVE SeqsUpTo(_, _)
SeqsUpTo(S, n) ==
    IF n = 0 THEN { <<>> }
    ELSE LET shorter == SeqsUpTo(S, n - 1)
         IN  shorter \cup { Append(s, x) : s \in { q \in shorter : Len(q) = n - 1 }, x \in S }

Distinct(s) == \A i, j \in 1..Len(s) : i # j => s[i] # s[j]

SmallFiles == { s \in SeqsUpTo(RowPool, MaxRows) : Distinct(s) }

\* the large data file: more rows than a result page shows
BigRows == 201

Digit(d) == <<"0", "1", "2", "3", "4", "5", "6", "7", "8", "9">>[d + 1]

RECURSIVE Digits(_)
Digits(n) == IF n < 10 THEN <<Digit(n)>> ELSE Append(Digits(n \div 10), Digit(n % 10))

BigRow(i) ==
    CsvRow(sU(Digits(i)),
           <<sD1, <<"d", "2">>, sD3>>[(i % 3) + 1],
           <<sWest, sSouth>>[(i % 2) + 1],
           <<"L", "A">>, <<"C", "A">>,
           <<sAB, <<"a", "b">>, Empty, sCD>>[(i % 4) + 1],
           <<Blank, Cell(30000), Cell(35000), Cell(32000), Cell(40000)>>[(i % 5) + 1],
           <<sBio, sArt>>[((i \div 2) % 2) + 1])

BigFile == [i \in 1..BigRows |-> BigRow(i)]

Forms ==
    [ division : { Empty, <<" ", "D", "1">>, sD3, <<"j", "u", "c", "o">> },
      region   : { Empty, sWest, <<"P", "a", "c", "i", "f", "i", "c">> },
      gpa      : { GpaText("empty", 0), GpaText("num", 32000) },
      major    : { Empty, sBio } ]

\* the forms posted against the large file
BigForms ==
    [ division : { Empty, <<"N", "A", "I", "A">>, sD1 },
      region   : { Empty, sSouth },
      gpa      : { GpaText("num", 35678) },
      major    : { sBio } ]

Resolvers == { {}, { <<"b", ".", "c", "o">> }, { <<"b", ".", "c", "o">>, <<"d", ".", "o", "r", "g">> } }

-----------------------------------------------------------------------------
(* SpecRank: one POST / against a data file no upload is writing           *)

NoForm == [division |-> Empty, region |-> Empty, gpa |-> GpaText("empty", 0),
           major |-> Empty]
NoOut == [ done |-> FALSE, player |-> NoPlayer, all_rows |-> <<>>,
           kept_div |-> FALSE, kept_reg |-> FALSE, reverted |-> FALSE,
           rows |-> <<>>, results |-> <<>> ]

RankIdle == form = NoForm /\ data = <<>> /\ dns = {} /\ out = NoOut

\* POST /: send_submission_email changes nothing the server keeps and its
\* failure is swallowed; the results rendered are out.results
IndexPost ==
    /\ ~out.done
    /\ out' = index_post(form, data, dns)
    /\ UNCHANGED <<form, data, dns, scoreVars, serverVars>>

-----------------------------------------------------------------------------
(* The server: requests of several clients, handled concurrently           *)
(*                                                                         *)
(* DATA_PATH is a sequence of cells, one per CSV row; the header line      *)
(* travels with the first row.  file.save opens the file with "wb", which  *)
(* empties it, and copies the upload in chunks: one cell per chunk here.   *)
(* load_colleges reads the file as it goes, one cell per step.  A write    *)
(* past the end of the file (the file was emptied by another upload in     *)
(* between) leaves NUL bytes before it: a Hole cell.                       *)

Clients == { "c1", "c2" }

\* os.environ.get("ADMIN_PASSWORD", "Gameday2025!!")
ADMIN_PASSWORD == <<"G", "a", "m", "e", "d", "a", "y", "2", "0", "2", "5", "!", "!">>
Passwords == { ADMIN_PASSWORD, <<"g", "u", "e", "s", "s">>, Empty }

sNUL == <<"NUL">>
Hole == CsvRow(sNUL, Empty, Empty, Empty, Empty, Empty, Blank, Empty)

File0 == <<Row1, Row2>>
Uploads == { <<Row3, Row4>>, <<Row5>> }
ServerForms ==
    { NoForm,
      [division |-> sD1, region |-> sWest, gpa |-> GpaText("num", 32000),
       major |-> sBio] }
ServerResolver == { <<"b", ".", "c", "o">> }

\* the record of a row none of whose columns load_colleges can name
EmptyRecord ==
    [ school_name |-> Empty, division |-> Empty, region |-> Empty, city |-> Empty,
      state |-> Empty, coach_name |-> Empty, coach_email |-> Empty,
      min_gpa |-> None, majors |-> Empty ]

\* csv.DictReader over cells read after the header line; nul: NUL bytes were
\* read since the last line end (they have none, and run into the next line)
RECURSIVE Records(_, _, _)
Records(cells, headerOk, nul) ==
    IF cells = <<>>
    THEN IF ~nul THEN <<>>
         ELSE IF headerOk THEN <<[EmptyRecord EXCEPT !.school_name = sNUL]>>
         ELSE <<EmptyRecord>>
    ELSE IF Head(cells) = Hole THEN Records(Tail(cells), headerOk, TRUE)
    ELSE LET r == LoadRow(Head(cells))
             rec == IF ~headerOk THEN EmptyRecord
                    ELSE IF nul THEN [r EXCEPT !.school_name = sNUL \o @]
                    ELSE r
         IN  <<rec>> \o Records(Tail(cells), headerOk, FALSE)

\* load_colleges on the cells a request read: with the first cell a hole, the
\* first line that follows the NUL bytes is taken for the header
LoadCells(cells) ==
    IF cells = <<>> THEN <<>>
    ELSE IF Head(cells) # Hole THEN Records(cells, TRUE, FALSE)
    ELSE LET real == { i \in 1..Len(cells) : cells[i] # Hole }
         IN  IF real = {} THEN <<>>
             ELSE LET k == CHOOSE i \in real : \A j \in real : i <= j
                  IN  Records(SubSeq(cells, k + 1, Len(cells)), FALSE, FALSE)

\* open(DATA_PATH, "wb") without the truncation
Truncate_keep(f) == f

\* open(DATA_PATH, "wb"): the file is emptied
Truncate(f) == <<>>

\* WriteAt with the chunk left in a buffer: nothing reaches the file
WriteAt_buffered(f, i, cell) == f

\* the i-th chunk written through a descriptor of its own
WriteAt(f, i, cell) ==
    IF i <= Len(f) THEN [f EXCEPT ![i] = cell]
    ELSE f \o [j \in 1..(i - 1 - Len(f)) |-> Hole] \o <<cell>>

\* pw == ADMIN_PASSWORD
PasswordOk(pw) == pw = ADMIN_PASSWORD

NoReq == [ op |-> "idle", form |-> NoForm, content |-> <<>>, pos |-> 0,
           cells |-> <<>>, overlap |-> FALSE, base |-> <<>>, admin |-> FALSE ]
Response(op, kind, to, admin, touched) ==
    [ op |-> op, kind |-> kind, to |-> to, admin |-> admin, touched |-> touched,
      form |-> NoForm, cells |-> <<>>, results |-> <<>>, base |-> <<>>,
      last |-> <<>>, clean |-> FALSE ]
NoResp == Response("none", "none", "", FALSE, {})

Idle(c) == req[c].op = "idle"
Uploading == { u \in Clients : req[u].op = "upload" }
Reply(c, r) == resp' = [resp EXCEPT ![c] = r]
ToLogin(c, op) == Reply(c, Response(op, "redirect", "admin_login", FALSE, {}))

\* GET /
IndexGet(c) ==
    /\ Idle(c)
    /\ Reply(c, Response("index", "page", "index.html", session[c], {}))
    /\ UNCHANGED <<main, file, cleanup, session, req, hist, scoreVars, rankVars>>

\* GET /admin
AdminLoginGet(c) ==
    /\ Idle(c)
    /\ Reply(c, Response("login", "page", "admin_login.html", session[c], {}))
    /\ UNCHANGED <<main, file, cleanup, session, req, hist, scoreVars, rankVars>>

\* POST /admin
AdminLoginPost(c, pw) ==
    /\ Idle(c)
    /\ IF PasswordOk(pw)
       THEN /\ session' = [session EXCEPT ![c] = TRUE]
            /\ Reply(c, Response("login", "redirect", "admin_panel", session[c], {}))
       ELSE /\ UNCHANGED session
            /\ Reply(c, Response("login", "page", "admin_login.html", session[c], {}))
    /\ hist' = [hist EXCEPT !.authed = IF pw = ADMIN_PASSWORD THEN @ \cup {c} ELSE @]
    /\ UNCHANGED <<main, file, cleanup, req, scoreVars, rankVars>>

\* GET /admin/panel
AdminPanel(c) ==
    /\ Idle(c)
    /\ IF ~session[c] THEN ToLogin(c, "panel")
       ELSE Reply(c, Response("panel", "page", "admin_panel.html", TRUE, {}))
    /\ UNCHANGED <<main, file, cleanup, session, req, hist, scoreVars, rankVars>>

\* GET /admin/export: send_file(DATA_PATH)
AdminExport(c) ==
    /\ Idle(c)
    /\ IF ~session[c] THEN ToLogin(c, "export")
       ELSE Reply(c, [Response("export", "download", "colleges.csv", TRUE,
                               {"read DATA_PATH"}) EXCEPT !.cells = file])
    /\ UNCHANGED <<main, file, cleanup, session, req, hist, scoreVars, rankVars>>

\* POST /admin/upload up to the open of file.save; given: the request has a file
AdminUpload(c, given, content) ==
    /\ Idle(c)
    /\ IF ~session[c]
       THEN ToLogin(c, "upload") /\ UNCHANGED <<file, req, hist>>
       ELSE IF ~given
       THEN /\ Reply(c, Response("upload", "redirect", "admin_panel", TRUE, {}))
            /\ UNCHANGED <<file, req, hist>>
       ELSE /\ file' = Truncate(file)
            /\ req' = [r \in Clients |->
                        IF r = c THEN [NoReq EXCEPT !.op = "upload",
                                             !.content = content, !.admin = TRUE]
                        ELSE IF req[r].op \in {"submit", "audit"}
                        THEN [req[r] EXCEPT !.overlap = TRUE]
                        ELSE req[r]]
            /\ hist' = [hist EXCEPT !.writers = @ \cup {c},
                                    !.mixed = (Uploading # {})]
            /\ Reply(c, NoResp)
    /\ UNCHANGED <<main, cleanup, session, scoreVars, rankVars>>

\* file.save: the next chunk
UploadWrite(c) ==
    /\ req[c].op = "upload"
    /\ req[c].pos < Len(req[c].content)
    /\ file' = WriteAt(file, req[c].pos + 1, req[c].content[req[c].pos + 1])
    /\ req' = [req EXCEPT ![c].pos = @ + 1]
    /\ UNCHANGED <<main, cleanup, session, resp, hist, scoreVars, rankVars>>

\* file.save returns; flash("College list updated."), redirect to the panel
UploadDone(c) ==
    /\ req[c].op = "upload"
    /\ req[c].pos = Len(req[c].content)
    /\ Reply(c, Response("upload", "redirect", "admin_panel", TRUE, {"write DATA_PATH"}))
    /\ hist' = [hist EXCEPT !.last = req[c].content]
    /\ req' = [req EXCEPT ![c] = NoReq]
    /\ UNCHANGED <<main, file, cleanup, session, scoreVars, rankVars>>

\* a request that starts load_colleges: open(DATA_PATH)
StartLoad(c, op, f) ==
    req' = [req EXCEPT ![c] =
              [NoReq EXCEPT !.op = op, !.form = f, !.admin = session[c],
                            !.overlap = (Uploading # {} \/ hist.mixed),
                            !.base = hist.last]]

\* POST / up to the open of load_colleges (send_submission_email changes
\* nothing the server keeps)
SubmitBegin(c, f) ==
    /\ Idle(c)
    /\ StartLoad(c, "submit", f)
    /\ Reply(c, NoResp)
    /\ UNCHANGED <<main, file, cleanup, session, hist, scoreVars, rankVars>>

\* load_colleges: `for raw in reader` gets one more row
ReadRow(c) ==
    /\ req[c].op \in {"submit", "audit"}
    /\ req[c].pos < Len(file)
    /\ req' = [req EXCEPT ![c].cells = Append(@, file[req[c].pos + 1]),
                          ![c].pos = @ + 1]
    /\ UNCHANGED <<main, file, cleanup, session, resp, hist, scoreVars, rankVars>>

\* POST / from the end of the file on: filter, score, sort, render
SubmitFinish(c) ==
    /\ req[c].op = "submit"
    /\ req[c].pos >= Len(file)
    /\ Reply(c, [Response("submit", "results", "results.html", req[c].admin,
                          {"read DATA_PATH"})
                   EXCEPT !.form = req[c].form, !.cells = req[c].cells,
                          !.results = Rank(PlayerOf(req[c].form),
                                           LoadCells(req[c].cells), dns).results,
                          !.base = req[c].base, !.last = hist.last,
                          !.clean = ~req[c].overlap])
    /\ req' = [req EXCEPT ![c] = NoReq]
    /\ UNCHANGED <<main, file, cleanup, session, hist, scoreVars, rankVars>>

\* GET /admin/audit-missing-location up to the open of load_colleges.  The
\* route is defined after `app.run(debug=True)`: a server started as
\* `python app.py` never registers it
AdminAudit(c) ==
    /\ Idle(c)
    /\ IF main
       THEN /\ Reply(c, Response("audit", "not_found", "", session[c], {}))
            /\ UNCHANGED req
       ELSE IF ~session[c]
       THEN ToLogin(c, "audit") /\ UNCHANGED req
       ELSE StartLoad(c, "audit", NoForm) /\ Reply(c, NoResp)
    /\ UNCHANGED <<main, file, cleanup, session, hist, scoreVars, rankVars>>

\* the audit from the end of the file on: the records without city or state
\* are written to needs_location_cleanup.csv, which is sent
AuditFinish(c) ==
    /\ req[c].op = "audit"
    /\ req[c].pos >= Len(file)
    /\ LET missing == SelectSeq(LoadCells(req[c].cells),
                                LAMBDA r : ~(r.city # <<>> /\ r.state # <<>>))
       IN  /\ cleanup' = [exists |-> TRUE, rows |-> missing]
           /\ Reply(c, [Response("audit", "download", "needs_location_cleanup.csv",
                                 TRUE, {"read DATA_PATH", "write cleanup"})
                          EXCEPT !.cells = req[c].cells, !.results = missing])
    /\ req' = [req EXCEPT ![c] = NoReq]
    /\ UNCHANGED <<main, file, session, hist, scoreVars, rankVars>>

ServerIdle ==
    /\ main = FALSE /\ file = <<>> /\ cleanup = [exists |-> FALSE, rows |-> <<>>]
    /\ session = [c \in Clients |-> FALSE]
    /\ req = [c \in Clients |-> NoReq]
    /\ resp = [c \in Clients |-> NoResp]
    /\ hist = [authed |-> {}, writers |-> {}, last |-> <<>>, mixed |-> FALSE]

Init ==
    /\ main \in BOOLEAN
    /\ file = File0
    /\ cleanup = [exists |-> FALSE, rows |-> <<>>]
    /\ session = [c \in Clients |-> FALSE]
    /\ req = [c \in Clients |-> NoReq]
    /\ resp = [c \in Clients |-> NoResp]
    /\ hist = [authed |-> {}, writers |-> {}, last |-> File0, mixed |-> FALSE]
    /\ form = NoForm /\ data = <<>> /\ out = NoOut /\ dns = ServerResolver
    /\ ScoreIdle

Next ==
    \E c \in Clients :
          \/ IndexGet(c)
          \/ \E f \in ServerForms : SubmitBegin(c, f)
          \/ ReadRow(c)
          \/ SubmitFinish(c)
          \/ AdminLoginGet(c)
          \/ \E pw \in Passwords : AdminLoginPost(c, pw)
          \/ AdminPanel(c)
          \/ AdminExport(c)
          \/ \E u \in Uploads : AdminUpload(c, TRUE, u)
          \/ AdminUpload(c, FALSE, <<>>)
          \/ UploadWrite(c)
          \/ UploadDone(c)
          \/ AdminAudit(c)
          \/ AuditFinish(c)

Spec == Init /\ [][Next]_vars


\* what the claims say of the server
ResultsOf(f, content) == index_post(f, content, dns).results
Submitted(c) == resp[c].kind = "results"
Gated == { "export", "upload", "audit" }

\* C5 (as amended): a completed submission whose reading of the data file
\* overlapped no upload, the file not being left by uploads that overlapped
\* one another, has the results computed from the content of the most recent
\* upload completed before it (the initial file if there was none).
C5_FreshRead ==
    \A c \in Clients :
        (Submitted(c) /\ resp[c].clean) =>
            /\ resp[c].base = resp[c].last
            /\ resp[c].results = ResultsOf(resp[c].form, resp[c].base)

\* C5 witness: a submission after a completed upload, overlapping none, that
\* shows records of the uploaded file.
C5_Witness ==
    \E c \in Clients :
        /\ Submitted(c) /\ resp[c].clean
        /\ resp[c].base \in Uploads
        /\ resp[c].results # <<>>

\* C5 as stated: every completed submission has the results computed from the
\* content of the most recent completed upload that precedes it (the one
\* completed last before it began, or before it ended) or the initial file.
C5_AsStated ==
    \A c \in Clients :
        Submitted(c) =>
            \/ resp[c].results = ResultsOf(resp[c].form, resp[c].base)
            \/ resp[c].results = ResultsOf(resp[c].form, resp[c].last)

\* C6 as stated: the admin flag is set only for clients that posted the
\* configured password; export, upload and audit requested without the flag
\* redirect to the login page and touch no file; the data file has been
\* overwritten only by clients that posted the configured password.
C6_AsStated ==
    /\ \A c \in Clients : session[c] => c \in hist.authed
    /\ \A c \in Clients :
          (resp[c].op \in Gated /\ ~resp[c].admin) =>
              /\ resp[c].kind = "redirect" /\ resp[c].to = "admin_login"
              /\ resp[c].touched = {}
    /\ hist.writers \subseteq hist.authed

\* The part of C6 that holds of every start of the server: as C6_AsStated,
\* but the audit without the flag, on a server started as `python app.py`,
\* is answered 404 Not Found instead of the redirect.
C6_GateHolds ==
    /\ \A c \in Clients : session[c] => c \in hist.authed
    /\ \A c \in Clients :
          (resp[c].op \in Gated /\ ~resp[c].admin) =>
              /\ \/ resp[c].kind = "redirect" /\ resp[c].to = "admin_login"
                 \/ main /\ resp[c].op = "audit" /\ resp[c].kind = "not_found"
              /\ resp[c].touched = {}
    /\ hist.writers \subseteq hist.authed

\* C8: nothing excludes a submission while an upload writes: during an upload
\* (no other upload having overlapped it) the data file is exactly the chunks
\* written so far, and another client can begin a submission, and one whose
\* submission is reading can read the next row of that file.
C8_NoExclusion ==
    \A u \in Clients :
        req[u].op = "upload" =>
            /\ ~hist.mixed => file = SubSeq(req[u].content, 1, req[u].pos)
            /\ \A s \in Clients \ {u} :
                  /\ req[s].op = "idle" => ENABLED SubmitBegin(s, NoForm)
                  /\ (req[s].op = "submit" /\ req[s].pos < Len(file)) =>
                         ENABLED ReadRow(s)

\* C8 witness: a completed submission that read, while a single upload was
\* writing, a non-empty content that is neither the old file nor the new one.
C8_Witness ==
    \E c \in Clients :
        /\ Submitted(c) /\ ~resp[c].clean /\ ~hist.mixed
        /\ resp[c].cells # <<>>
        /\ resp[c].cells # resp[c].base
        /\ resp[c].cells \notin Uploads
        /\ resp[c].results # ResultsOf(resp[c].form, resp[c].base)
        /\ \A u \in Uploads : resp[c].results # ResultsOf(resp[c].form, u)

InitScore ==
    /\ player \in ScorePlayers
    /\ row \in ScoreRows
    /\ match_score = NotYet
    /\ RankIdle
    /\ ServerIdle

NextScore == ScoreCall

SpecScore == InitScore /\ [][NextScore]_vars

\* what the claims say of a call
Called == match_score.done
Gpa == PlayerGpa(player.gpa)
Floor == IF row.min_gpa.k = "num" THEN row.min_gpa.v ELSE 0
\* the player's GPA is a number strictly below the floor
BelowFloor == (Gpa.k = "fin" /\ Gpa.v < Floor) \/ Gpa.k = "ninf"
\* D, R and M of the reference formula, 0 or 1
RefD == IF player.division # <<>>
           /\ Lower(Strip(player.division)) = Lower(Strip(row.division))
        THEN 1 ELSE 0
RefR == IF player.region # <<>>
           /\ Lower(Strip(player.region)) = Lower(Strip(row.region))
        THEN 1 ELSE 0
RefPieces ==
    LET parts == Split(row.majors, "|")
    IN  { Lower(Strip(parts[i])) : i \in 1..Len(parts) }
RefM == IF Lower(Strip(player.major)) # <<>>
           /\ Lower(Strip(player.major)) \in RefPieces
        THEN 1 ELSE 0
\* A of the reference formula, in 1/100000: 0 below the floor, otherwise
\* 0.6 + 0.4 * min(GPA - floor, 1.0); a GPA text that is not a number gets 0
RefA ==
    CASE Gpa.k = "pinf" -> 100000
      [] Gpa.k = "fin" /\ Gpa.v >= Floor ->
            60000 + 4 * (IF Gpa.v - Floor < 10000 THEN Gpa.v - Floor ELSE 10000)
      [] OTHER -> 0
\* 100 * (0.35 D + 0.25 R + 0.25 A + 0.15 M), in 1/100000 point
RefSum == 35 * 100000 * RefD + 25 * 100000 * RefR + 25 * RefA + 15 * 100000 * RefM
\* x hundredths is RefSum rounded to 2 decimals: the nearest hundredth
IsRounded(x) == 2 * (RefSum - 1000 * x) < 1000 /\ 2 * (1000 * x - RefSum) < 1000
AtFloor == Gpa.k = "fin" /\ row.min_gpa.k = "num" /\ Gpa.v = Floor

\* C1: every call of compute_match_score returns a value between 0 and 100.
C1_ScoreInRange == Called => (0 <= match_score.v /\ match_score.v <= 10000)

\* C1 witness: calls have returned both ends of the range, 100 being reached
\* by a GPA text whose value is infinite.
C1_Witness == Called /\ match_score.v = 10000 /\ Gpa.k = "pinf"

\* C2 (as amended): the value returned is the reference formula rounded to 2
\* decimals, and with D = R = M = 1 and the GPA exactly at the floor it is 90.0.
C2_Formula ==
    Called => /\ IsRounded(match_score.v)
              /\ (RefD = 1 /\ RefR = 1 /\ RefM = 1 /\ AtFloor) => match_score.v = 9000

\* C2 witness: all three matches with the GPA exactly at a floor above 0.
C2_Witness ==
    Called /\ RefD = 1 /\ RefR = 1 /\ RefM = 1 /\ AtFloor /\ Floor > 0

\* C2 as stated: the same, with 85.0 for the score at the floor.
C2_AsStated ==
    Called => /\ (Gpa.k # "nan" => IsRounded(match_score.v))
              /\ (RefD = 1 /\ RefR = 1 /\ RefM = 1 /\ AtFloor) => match_score.v = 8500

\* C3: with the GPA strictly below the floor the academic term is 0: the
\* score is 100 * (0.35 D + 0.25 R + 0.15 M), at most 75.
C3_BelowFloor ==
    (Called /\ BelowFloor) =>
        /\ match_score.v = 100 * (35 * RefD + 25 * RefR + 15 * RefM)
        /\ match_score.v <= 7500

\* C3 witness: a GPA below the floor with division, region and major matching.
C3_Witness ==
    Called /\ BelowFloor /\ RefD = 1 /\ RefR = 1 /\ RefM = 1 /\ match_score.v = 7500


-----------------------------------------------------------------------------
InitRank ==
    /\ \/ form \in Forms /\ data \in SmallFiles
       \/ form \in BigForms /\ data = BigFile
    /\ dns \in Resolvers
    /\ out = NoOut
    /\ ScoreIdle
    /\ ServerIdle

NextRank == IndexPost

SpecRank == InitRank /\ [][NextRank]_vars


\* what the claims say of a submission
Ranked == out.done
Same(a, b) == Lower(Strip(a)) = Lower(Strip(b))
DivGiven == out.player.division # <<>>
RegGiven == out.player.region # <<>>
DivRows == SelectSeq(out.all_rows, LAMBDA r : Same(r.division, out.player.division))
RegRows == SelectSeq(out.all_rows, LAMBDA r : Same(r.region, out.player.region))
\* the set left by the division step, and the records of it in the region
AfterDiv == IF DivGiven /\ DivRows # <<>> THEN DivRows ELSE out.all_rows
AfterDivReg == SelectSeq(AfterDiv, LAMBDA r : Same(r.region, out.player.region))

\* res is the first 200 entries of base scored and ordered by score, the
\* higher first and equal scores in the order of base
IsRanking(res, base) ==
    LET sb == [j \in 1..Len(base) |-> Scored(out.player, base[j], dns)]
        n == Len(base)
        k == Len(res)
        pos == [i \in 1..k |-> CHOOSE j \in 1..n : sb[j] = res[i]]
    IN  /\ k = (IF n < 200 THEN n ELSE 200)
        /\ \A i \in 1..k : \E j \in 1..n : sb[j] = res[i]
        /\ \A i \in 1..(k - 1) :
              \/ res[i].match_score > res[i + 1].match_score
              \/ res[i].match_score = res[i + 1].match_score /\ pos[i] < pos[i + 1]
        /\ \A j \in 1..n :
              (\A i \in 1..k : res[i] # sb[j]) =>
                  \/ sb[j].match_score < res[k].match_score
                  \/ sb[j].match_score = res[k].match_score /\ j > pos[k]

\* C4 (as amended): when the division named matches no record, the results
\* are the ranking of the whole dataset if the region preference is empty or
\* matches no record, and the ranking of the records of that region otherwise.
C4_DivisionFallback ==
    (Ranked /\ DivGiven /\ DivRows = <<>>) =>
        IsRanking(out.results,
                  IF RegGiven /\ RegRows # <<>> THEN RegRows ELSE out.all_rows)

\* C4 witness: no record of the division, and a region that some records
\* have and others have not, so that fewer records are shown than the file has.
C4_Witness ==
    /\ Ranked /\ DivGiven /\ DivRows = <<>>
    /\ RegGiven /\ RegRows # <<>> /\ Len(RegRows) < Len(out.all_rows)
    /\ Len(out.results) = Len(RegRows)

\* C4 as stated: when the division named matches no record, the results are
\* the ranking of the whole dataset, whatever the region preference.
C4_AsStated ==
    (Ranked /\ DivGiven /\ DivRows = <<>>) => IsRanking(out.results, out.all_rows)

\* C7: every result carries either no link or the link to its trimmed coach
\* email, and it carries a link only if that email is syntactically valid.
C7_MailtoOnlyIfValid ==
    Ranked =>
        \A i \in 1..Len(out.results) :
            LET r == out.results[i]
                email == Strip(r.coach_email)
            IN  /\ r.mailto \in { NoLink, Link(email, r) }
                /\ r.mailto # NoLink => EmailSyntaxOk(email)
                /\ (email = <<>> \/ ~EmailSyntaxOk(email)) => r.mailto = NoLink

\* C7 witness: one page of results holds a record with a link, a record whose
\* email is malformed, a record without email, and a record whose well-formed
\* email has a domain that does not resolve; the last three have no link.
C7_Witness ==
    /\ Ranked
    /\ \E i \in 1..Len(out.results) : out.results[i].mailto # NoLink
    /\ \E j \in 1..Len(out.results) :
          /\ out.results[j].coach_email # <<>>
          /\ ~EmailSyntaxOk(out.results[j].coach_email)
          /\ out.results[j].mailto = NoLink
    /\ \E k \in 1..Len(out.results) :
          out.results[k].coach_email = <<>> /\ out.results[k].mailto = NoLink
    /\ \E l \in 1..Len(out.results) :
          /\ EmailSyntaxOk(out.results[l].coach_email)
          /\ out.results[l].mailto = NoLink

\* C9: the division filter is kept exactly when a division was given and a
\* record matches it; the region filter exactly when a region was given and a
\* record of the set so far matches it; the candidates are the records that
\* pass the filters kept, non-empty when the dataset is; and the final revert
\* is taken only on an empty dataset.
C9_Progressive ==
    Ranked =>
        /\ out.kept_div <=> (DivGiven /\ DivRows # <<>>)
        /\ out.kept_reg <=> (RegGiven /\ AfterDivReg # <<>>)
        /\ out.rows = (IF RegGiven /\ AfterDivReg # <<>> THEN AfterDivReg ELSE AfterDiv)
        /\ out.all_rows # <<>> => out.rows # <<>>
        /\ out.reverted => out.all_rows = <<>>

\* C9 witness: the division filter is kept and the region filter dropped,
\* although the region matches a record outside the division.
C9_Witness ==
    /\ Ranked /\ out.kept_div /\ ~out.kept_reg
    /\ RegGiven /\ RegRows # <<>>
    /\ Len(out.rows) < Len(out.all_rows)

\* C10: the results are the first 200 candidates by score, the higher first,
\* equal scores in data-file order; no candidate left out outscores one shown.
C10_Ranking ==
    Ranked =>
        /\ IsRanking(out.results, out.rows)
        /\ LET shown == { out.results[k].school_name : k \in 1..Len(out.results) }
           IN  \A j \in 1..Len(out.rows) :
                  out.rows[j].school_name \notin shown =>
                      \A i \in 1..Len(out.results) :
                          compute_match_score(out.player, out.rows[j])
                              <= out.results[i].match_score

\* C10 witness: more than 200 candidates, 200 shown, and the candidate left
\* out has the score of the last one shown.
C10_Witness ==
    /\ Ranked /\ Len(out.rows) > 200 /\ Len(out.results) = 200
    /\ LET shown == { out.results[k].school_name : k \in 1..Len(out.results) }
       IN  \E j \in 1..Len(out.rows) :
              /\ out.rows[j].school_name \notin shown
              /\ compute_match_score(out.player, out.rows[j])
                    = out.results[200].match_score

=============================================================================
